---- MODULE Spec2Model ----
(***************************************************************************)
(* Model of netflixanalysis.py, a Streamlit dashboard script.  Streamlit  *)
(* executes the whole script top to bottom on the first page load and on  *)
(* every widget interaction; one such execution is one action below.      *)
(*                                                                         *)
(* A DataFrame is a sequence of rows.  Each row carries its pandas index   *)
(* label ("index"), the columns the script reads ("release_year",          *)
(* "rating") and "row", which stands for the remaining columns of          *)
(* SELECT * and is the row's 0-based position in the store table.          *)
(* A string is a sequence of one-character strings, so that str.isnumeric  *)
(* and int() are computed character by character.                          *)
(***************************************************************************)
EXTENDS Integers, Sequences, FiniteSets, TLC

VARIABLES
    db,          \* the SQLite store netflix.db: six tables, never written
    cache,       \* st.cache_data: loader name -> cached DataFrame
    queries,     \* number of times each query has been executed on the store
    runs,        \* number of script executions so far
    status,      \* "init", "ok", or the exception that stopped the last run
    widgets,     \* sidebar widget values read by the last run
    movies,      \* script variable movies after DATA CLEANING
    tvshows,     \* script variable tvshows after DATA CLEANING
    min_year,
    max_year,
    movies_r,    \* movies_f as assigned on line 183 (before the genre step)
    tvshows_r,   \* tvshows_f as assigned on line 184
    movie_ids,
    tv_ids,
    movies_f,    \* movies_f at the end of the genre step
    tvshows_f,
    kpi,         \* the three st.metric values
    pie_df,
    trend_df,
    figs         \* the four tables handed to the genre / country bar charts

vars == <<db, cache, queries, runs, status, widgets, movies, tvshows,
          min_year, max_year, movies_r, tvshows_r, movie_ids, tv_ids,
          movies_f, tvshows_f, kpi, pie_df, trend_df, figs>>

-----------------------------------------------------------------------------
(* Bounds of the model *)

MaxRows == 2

MaxLinks == 3

MaxRuns == 3

(* Program constants *)

DefaultFromYear == 2010

TopN == 10

-----------------------------------------------------------------------------
(* Values *)

NULL == "NULL"

\* float("nan"); only ever tested with = and #, never used as a number
NaN == 0 - 1

SeqsUpTo(set, n) == UNION {[1..k -> set] : k \in 0..n}

Range(seq) == {seq[i] : i \in DOMAIN seq}

-----------------------------------------------------------------------------
(* Strings: str.isnumeric and int() *)

DecimalChars == {"0", "1", "2", "3", "4", "5", "6", "7", "8", "9"}

\* "1/2" is the single character U+00BD (VULGAR FRACTION ONE HALF): Unicode
\* category No, numeric but neither a decimal nor a digit.
NumericChars == DecimalChars \cup {"1/2"}

isnumeric(str) == Len(str) > 0 /\ \A i \in DOMAIN str : str[i] \in NumericChars

DigitValue(c) ==
    CASE c = "0" -> 0 [] c = "1" -> 1 [] c = "2" -> 2 [] c = "3" -> 3
      [] c = "4" -> 4 [] c = "5" -> 5 [] c = "6" -> 6 [] c = "7" -> 7
      [] c = "8" -> 8 [] c = "9" -> 9

\* int(str) raises ValueError unless str is a non-empty run of decimals
\* (signs and blanks never reach it: isnumeric has rejected them).
IntParses(str) == Len(str) > 0 /\ \A i \in DOMAIN str : str[i] \in DecimalChars

RECURSIVE IntOf(_)
IntOf(str) ==
    IF Len(str) = 0 THEN 0
    ELSE 10 * IntOf(SubSeq(str, 1, Len(str) - 1)) + DigitValue(str[Len(str)])

-----------------------------------------------------------------------------
(* pandas: the operations the script applies to a DataFrame *)

\* pd.read_sql("SELECT * FROM <table>"): a fresh RangeIndex 0..n-1
read_sql_table(tbl) ==
    [i \in 1..Len(tbl) |->
        [index |-> i - 1, row |-> i - 1,
         release_year |-> tbl[i].release_year, rating |-> tbl[i].rating]]

\* df[df["release_year"].astype(str).str.isnumeric()]; index labels are kept
KeepNumericYears(df) == SelectSeq(df, LAMBDA r : isnumeric(r.release_year))

\* df["release_year"].astype(int) raises ValueError on the first value int()
\* rejects
AstypeIntRaises(df) == \E i \in DOMAIN df : ~IntParses(df[i].release_year)

AstypeInt(df) ==
    [i \in DOMAIN df |-> [df[i] EXCEPT !.release_year = IntOf(@)]]

SetMin(set) == CHOOSE x \in set : \A y \in set : x <= y

SetMax(set) == CHOOSE x \in set : \A y \in set : y <= x

Years(df) == {df[i].release_year : i \in DOMAIN df}

\* Series.min() / Series.max(): NaN on an empty Series
SeriesMin(df) == IF df = <<>> THEN NaN ELSE SetMin(Years(df))

SeriesMax(df) == IF df = <<>> THEN NaN ELSE SetMax(Years(df))

\* Python's < and >: every comparison with NaN is False
PyLess(a, b) == a # NaN /\ b # NaN /\ a < b

\* Python's min(a, b) keeps a unless b < a; max(a, b) keeps a unless b > a
PyMin(a, b) == IF PyLess(b, a) THEN b ELSE a

PyMax(a, b) == IF PyLess(a, b) THEN b ELSE a

\* Mutation of Between: the upper end is exclusive
BetweenHalfOpen(df, yr) ==
    SelectSeq(df, LAMBDA r : yr[1] <= r.release_year /\ r.release_year < yr[2])

\* df[df["release_year"].between(lo, hi)]: both ends inclusive
Between(df, yr) ==
    SelectSeq(df, LAMBDA r : yr[1] <= r.release_year /\ r.release_year <= yr[2])

\* df[df["rating"].isin(rating_filter)]
IsinRating(df, rating_filter) == SelectSeq(df, LAMBDA r : r.rating \in rating_filter)

\* df.reset_index(drop=True): index labels become 0..n-1
reset_index(df) == [i \in DOMAIN df |-> [df[i] EXCEPT !.index = i - 1]]

\* df.iloc[0:0]: the same columns, no rows
iloc_0_0(df) == SubSeq(df, 1, 0)

\* df.head(n)
head(df, n) == SubSeq(df, 1, IF Len(df) < n THEN Len(df) ELSE n)

\* df.groupby("release_year").size(): year -> number of rows
YearSize(df, y) == Cardinality({i \in DOMAIN df : df[i].release_year = y})

RECURSIVE SortedSeq(_)
SortedSeq(set) ==
    IF set = {} THEN <<>> ELSE <<SetMin(set)>> \o SortedSeq(set \ {SetMin(set)})

-----------------------------------------------------------------------------
(* SQL: the queries the script sends to the store *)

Count(labels, l) == Cardinality({i \in DOMAIN labels : labels[i] = l})

\* A result of SELECT <label>, COUNT(*) AS total FROM <table> GROUP BY <label>
\* ORDER BY total DESC, given the label column of the table.  SQL leaves the
\* relative order of rows with equal total unspecified, so every order that is
\* descending by total is a possible result.
GroupRows(labels) ==
    LET L == Range(labels)
        n == Cardinality(L)
        perms == {p \in [1..n -> L] : \A i, j \in 1..n : i # j => p[i] # p[j]}
    IN  {[i \in 1..n |-> [label |-> p[i], total |-> Count(labels, p[i])]] :
            p \in perms}

\* Mutation of GroupCountDesc: the ORDER BY clause is missing
GroupCountNoOrderBy(labels) == GroupRows(labels)

GroupCountDesc(labels) ==
    {res \in GroupRows(labels) :
        \A i, j \in DOMAIN res : i < j => res[i].total >= res[j].total}

Column(tbl, col) == [i \in DOMAIN tbl |-> tbl[i][col]]

\* SELECT DISTINCT rowid FROM <genre table> WHERE genre IN (genre_filter)
\* ... ["rowid"].tolist(), used only for emptiness and membership
SelectRowids(tbl, genre_filter) ==
    {tbl[i].rowid : i \in {j \in DOMAIN tbl : tbl[j].genre \in genre_filter}}

-----------------------------------------------------------------------------
(* st.cache_data *)

LoaderNames ==
    {"load_movies", "load_tvshows", "load_movie_genres", "load_tv_genres",
     "load_movie_countries", "load_tv_countries"}

LookupNames == {"movie_ids", "tv_ids"}

\* The body of each loader: what its query can return
LoaderBody(name) ==
    CASE name = "load_movies" -> {read_sql_table(db.movies)}
      [] name = "load_tvshows" -> {read_sql_table(db.tvshows)}
      [] name = "load_movie_genres" ->
            GroupCountDesc(Column(db.movie_genres, "genre"))
      [] name = "load_tv_genres" ->
            GroupCountDesc(Column(db.tvshow_genres, "genre"))
      [] name = "load_movie_countries" ->
            GroupCountDesc(Column(db.movie_countries, "country"))
      [] name = "load_tv_countries" ->
            GroupCountDesc(Column(db.tvshows_countries, "country"))

\* Mutation of CacheHit: the decorator is missing
CacheHitNever(name) == FALSE

\* @st.cache_data on a function without arguments: one entry per function,
\* no ttl, no max_entries
CacheHit(name) == name \in DOMAIN cache

\* What a call of the decorated loader can return
Call(name) == IF CacheHit(name) THEN {cache[name]} ELSE LoaderBody(name)

-----------------------------------------------------------------------------
(* The script's own steps *)

ContentTypes == {"Both", "Movies", "TV Shows"}

\* Mutation of ApplyFilters: the content type step is missing
ApplyFiltersKeepExcluded(df, w, excluded) ==
    LET year_step == Between(df, w.year_range)
    IN  reset_index(IF w.rating_filter # {}
                    THEN IsinRating(year_step, w.rating_filter)
                    ELSE year_step)

\* APPLY FILTERS, lines 170-184, for one fact table; excluded is the
\* content-type test of that table (lines 179 and 181)
ApplyFilters(df, w, excluded) ==
    LET year_step == Between(df, w.year_range)
        rating_step == IF w.rating_filter # {}
                       THEN IsinRating(year_step, w.rating_filter)
                       ELSE year_step
        content_step == IF excluded THEN iloc_0_0(rating_step) ELSE rating_step
    IN  reset_index(content_step)

\* Mutation of GenreFilter: an empty lookup leaves the table as it is
GenreFilterNoEmptyBranch(df, ids) ==
    IF ids # {} THEN SelectSeq(df, LAMBDA r : r.index \in ids) ELSE df

\* GENRE FILTER, lines 214-222, for one fact table
GenreFilter(df, ids) ==
    IF ids # {} THEN SelectSeq(df, LAMBDA r : r.index \in ids) ELSE iloc_0_0(df)

\* Mutation of Kpi: the total counts the movies twice
KpiTotalFromMovies(mf, tf) == <<Len(mf), Len(tf), Len(mf) + Len(mf)>>

\* KPI METRICS, lines 232-234
Kpi(mf, tf) == <<Len(mf), Len(tf), Len(mf) + Len(tf)>>

\* CONTENT MIX, lines 241-244: the Count column
PieDf(mf, tf) == <<Len(mf), Len(tf)>>

\* YEAR-WISE TRENDS, lines 261-269: merge(how="outer").fillna(0); an outer
\* merge returns the keys sorted
TrendRows(years, mf, tf) ==
    LET ys == SortedSeq(years)
    IN  [i \in DOMAIN ys |->
            [release_year |-> ys[i],
             Movies |-> YearSize(mf, ys[i]),
             TVShows |-> YearSize(tf, ys[i])]]

\* Mutation of TrendDf: how="inner"
TrendDfInner(mf, tf) == TrendRows(Years(mf) \cap Years(tf), mf, tf)

TrendDf(mf, tf) == TrendRows(Years(mf) \cup Years(tf), mf, tf)

\* Mutation of BarChartTable: the chart shows the selected labels only
BarChartTableOfSelection(agg) ==
    head(SelectSeq(agg, LAMBDA r :
            \/ widgets'.genre_filter \cup widgets'.country_filter = {}
            \/ r.label \in widgets'.genre_filter \cup widgets'.country_filter),
         TopN)

\* GENRE / COUNTRY ANALYSIS, lines 344, 356, 375, 387: <aggregate>.head(10)
BarChartTable(agg) == head(agg, TopN)

\* FILTER MASTER VALUES, lines 122-129, and the multiselect options of lines
\* 151, 157, 163, as sets
Labels(agg) == {agg[i].label : i \in DOMAIN agg}

GenreOptions(mg, tg) == Labels(mg) \cup Labels(tg)

CountryOptions(mc, tc) == Labels(mc) \cup Labels(tc)

RatingOptions(mv, tv) ==
    {r \in {mv[i].rating : i \in DOMAIN mv} \cup {tv[i].rating : i \in DOMAIN tv} :
        r # NULL}

-----------------------------------------------------------------------------
(* One execution of the script *)

NoWidgets ==
    [year_range |-> <<NaN, NaN>>, content_type |-> "Both",
     genre_filter |-> {}, country_filter |-> {}, rating_filter |-> {}]

\* The run stops with exception exc: nothing below that line is assigned
Raise(exc, w, mv, tv, lo, hi) ==
    /\ status' = exc
    /\ widgets' = w
    /\ movies' = mv
    /\ tvshows' = tv
    /\ min_year' = lo
    /\ max_year' = hi
    /\ movies_r' = <<>>
    /\ tvshows_r' = <<>>
    /\ movie_ids' = {}
    /\ tv_ids' = {}
    /\ movies_f' = <<>>
    /\ tvshows_f' = <<>>
    /\ kpi' = <<>>
    /\ pie_df' = <<>>
    /\ trend_df' = <<>>
    /\ figs' = <<>>

\* Lines 170-395 with the widget values w
FilterAndRender(w, mv, tv, lo, hi, mg, tg, mc, tc) ==
    LET mr == ApplyFilters(mv, w, w.content_type = "TV Shows")
        tr == ApplyFilters(tv, w, w.content_type = "Movies")
        mi == IF w.genre_filter # {}
              THEN SelectRowids(db.movie_genres, w.genre_filter) ELSE {}
        ti == IF w.genre_filter # {}
              THEN SelectRowids(db.tvshow_genres, w.genre_filter) ELSE {}
        mf == IF w.genre_filter # {} THEN GenreFilter(mr, mi) ELSE mr
        tf == IF w.genre_filter # {} THEN GenreFilter(tr, ti) ELSE tr
    IN  /\ status' = "ok"
        /\ widgets' = w
        /\ movies' = mv
        /\ tvshows' = tv
        /\ min_year' = lo
        /\ max_year' = hi
        /\ movies_r' = mr
        /\ tvshows_r' = tr
        /\ movie_ids' = mi
        /\ tv_ids' = ti
        /\ movies_f' = mf
        /\ tvshows_f' = tf
        /\ kpi' = Kpi(mf, tf)
        /\ pie_df' = PieDf(mf, tf)
        /\ trend_df' = TrendDf(mf, tf)
        /\ figs' = [movie_genre |-> BarChartTable(mg),
                    tv_genre |-> BarChartTable(tg),
                    movie_country |-> BarChartTable(mc),
                    tv_country |-> BarChartTable(tc)]

\* st.sidebar.slider(label, min_year, max_year, value) raises
\* StreamlitAPIException unless min_year <= value[0] <= value[1] <= max_year
SliderRaises(lo, hi, value) ==
    \/ lo = NaN
    \/ hi = NaN
    \/ ~(lo <= value[1] /\ value[1] <= value[2] /\ value[2] <= hi)

\* The whole script.  req holds the widget values of the session; on the
\* first run (first = TRUE) every widget takes its default.
Script(req, first) ==
    \E m0 \in Call("load_movies"), t0 \in Call("load_tvshows"),
       mg \in Call("load_movie_genres"), tg \in Call("load_tv_genres"),
       mc \in Call("load_movie_countries"), tc \in Call("load_tv_countries") :
        LET mk == KeepNumericYears(m0)
            tk == KeepNumericYears(t0)
            raises == AstypeIntRaises(mk) \/ AstypeIntRaises(tk)
            mv == AstypeInt(mk)
            tv == AstypeInt(tk)
            lo == PyMin(SeriesMin(mv), SeriesMin(tv))
            hi == PyMax(SeriesMax(mv), SeriesMax(tv))
            w == IF first
                 THEN [NoWidgets EXCEPT !.year_range = <<DefaultFromYear, hi>>]
                 ELSE req
            rendered == ~raises /\ ~SliderRaises(lo, hi, w.year_range)
            lookups == rendered /\ w.genre_filter # {}
        IN  /\ db' = db
            /\ runs' = runs + 1
            /\ cache' = [n \in LoaderNames |->
                            CASE n = "load_movies" -> m0
                              [] n = "load_tvshows" -> t0
                              [] n = "load_movie_genres" -> mg
                              [] n = "load_tv_genres" -> tg
                              [] n = "load_movie_countries" -> mc
                              [] n = "load_tv_countries" -> tc]
            /\ queries' = [q \in DOMAIN queries |->
                            IF q \in LoaderNames
                            THEN queries[q] + (IF CacheHit(q) THEN 0 ELSE 1)
                            ELSE queries[q] + (IF lookups THEN 1 ELSE 0)]
            /\ IF raises
               THEN Raise("ValueError", req, <<>>, <<>>, NaN, NaN)
               ELSE IF SliderRaises(lo, hi, w.year_range)
               THEN Raise("StreamlitAPIException", req, mv, tv, lo, hi)
               ELSE FilterAndRender(w, mv, tv, lo, hi, mg, tg, mc, tc)

-----------------------------------------------------------------------------
(* The user *)

Toggle(set, x) == IF x \in set THEN set \ {x} ELSE set \cup {x}

\* Slider positions the user is given to choose from: the years on display
\* and the default
SliderTicks == Years(movies) \cup Years(tvshows) \cup {DefaultFromYear}

\* The widget values one interaction can lead to: one widget changes
OneChange(w) ==
    LET mg == cache["load_movie_genres"]
        tg == cache["load_tv_genres"]
        mc == cache["load_movie_countries"]
        tc == cache["load_tv_countries"]
    IN  {[w EXCEPT !.year_range = <<y, @[2]>>] :
            y \in {t \in SliderTicks : min_year <= t /\ t <= w.year_range[2]}}
        \cup {[w EXCEPT !.year_range = <<@[1], y>>] :
            y \in {t \in SliderTicks : w.year_range[1] <= t /\ t <= max_year}}
        \cup {[w EXCEPT !.content_type = c] : c \in ContentTypes}
        \cup {[w EXCEPT !.genre_filter = Toggle(@, g)] : g \in GenreOptions(mg, tg)}
        \cup {[w EXCEPT !.country_filter = Toggle(@, c)] :
                c \in CountryOptions(mc, tc)}
        \cup {[w EXCEPT !.rating_filter = Toggle(@, r)] :
                r \in RatingOptions(movies, tvshows)}

\* The first page load of the session
FirstRun ==
    /\ runs = 0
    /\ Script(NoWidgets, TRUE)

\* The user changes one widget; Streamlit reruns the script
Interact ==
    /\ runs > 0
    /\ runs < MaxRuns
    /\ status = "ok"
    /\ \E w \in OneChange(widgets) \ {widgets} : Script(w, FALSE)

\* A rerun with the widgets as they are (the "Rerun" menu entry)
Rerun ==
    /\ runs > 0
    /\ runs < MaxRuns
    /\ Script(widgets, status # "ok")

Next == FirstRun \/ Interact \/ Rerun

-----------------------------------------------------------------------------
(* Stores *)

Y2009 == <<"2", "0", "0", "9">>

Y2015 == <<"2", "0", "1", "5">>

Y2018 == <<"2", "0", "1", "8">>

FactRow(y, r) == [release_year |-> y, rating |-> r]

GenreLink(id, g) == [rowid |-> id, genre |-> g]

CountryLink(id, c) == [rowid |-> id, country |-> c]

Store(m, t, mg, tg, mc, tc) ==
    [movies |-> m, tvshows |-> t, movie_genres |-> mg, tvshow_genres |-> tg,
     movie_countries |-> mc, tvshows_countries |-> tc]

\* Rows of a fact table whose years are plain digit strings
FactRows == {FactRow(Y2009, "PG"), FactRow(Y2015, "R"), FactRow(Y2018, NULL)}

SmallFactTables == {<<>>, <<FactRow(Y2009, "R"), FactRow(Y2018, "PG")>>}

GenreTables ==
    {<<>>, <<GenreLink(0, "Drama")>>, <<GenreLink(1, "Drama")>>,
     <<GenreLink(0, "Comedy"), GenreLink(1, "Drama")>>}

SmallGenreTables == {<<GenreLink(0, "Comedy")>>}

\* Rows of a fact table as a cleaning step may meet them
RawFactRows ==
    {FactRow(Y2009, "PG"), FactRow(Y2018, "R"), FactRow(<<"1/2">>, "PG"),
     FactRow(<<"2", "0", "x">>, "PG"), FactRow(<<>>, "R")}

RawFactTables ==
    {<<>>, <<FactRow(Y2015, "PG")>>, <<FactRow(<<"-", "5">>, "R")>>,
     <<FactRow(<<"2", ".", "0">>, "R"), FactRow(Y2009, "R")>>}

\* Rows of the association tables
LabelGenreLinks == {GenreLink(0, "Drama"), GenreLink(0, "Comedy")}

CountryTables ==
    {<<>>, <<CountryLink(0, "India")>>,
     <<CountryLink(0, "India"), CountryLink(1, "Japan"), CountryLink(2, "Japan")>>}

\* The state before the first page load, for a given store
Start(store) ==
    /\ db = store
    /\ cache = <<>>
    /\ queries = [q \in LoaderNames \cup LookupNames |-> 0]
    /\ runs = 0
    /\ status = "init"
    /\ widgets = NoWidgets
    /\ movies = <<>>
    /\ tvshows = <<>>
    /\ min_year = NaN
    /\ max_year = NaN
    /\ movies_r = <<>>
    /\ tvshows_r = <<>>
    /\ movie_ids = {}
    /\ tv_ids = {}
    /\ movies_f = <<>>
    /\ tvshows_f = <<>>
    /\ kpi = <<>>
    /\ pie_df = <<>>
    /\ trend_df = <<>>
    /\ figs = <<>>

\* Stores that exercise the filters: one fact table and its genre table
\* vary widely, the other pair little
Init ==
    \E f \in SeqsUpTo(FactRows, MaxRows), s \in SmallFactTables,
       g \in GenreTables, h \in SmallGenreTables :
        \/ Start(Store(f, s, g, h, <<>>, <<>>))
        \/ Start(Store(s, f, h, g, <<>>, <<>>))

Spec == Init /\ [][Next]_vars

\* Stores that exercise the cleaning step
InitClean ==
    \E m \in SeqsUpTo(RawFactRows, MaxRows), t \in RawFactTables :
        Start(Store(m, t, <<GenreLink(0, "Drama")>>, <<>>,
                    <<CountryLink(0, "India")>>, <<>>))

SpecClean == InitClean /\ [][Next]_vars

\* Stores that exercise the genre and country aggregates
InitLoader ==
    \E g \in SeqsUpTo(LabelGenreLinks, MaxLinks),
       c \in CountryTables :
        Start(Store(<<FactRow(Y2009, "PG"), FactRow(Y2015, "PG")>>,
                    <<FactRow(Y2015, NULL)>>,
                    g, <<GenreLink(0, "Drama")>>, c, <<CountryLink(0, "India")>>))

SpecLoader == InitLoader /\ [][Next]_vars

-----------------------------------------------------------------------------
(* Properties *)

\* A DataFrame without its index labels: the rows themselves
Strip(df) ==
    [i \in DOMAIN df |->
        [row |-> df[i].row, release_year |-> df[i].release_year,
         rating |-> df[i].rating]]

InYearRange(r) ==
    widgets.year_range[1] <= r.release_year /\ r.release_year <= widgets.year_range[2]

RatingSelected(r) == widgets.rating_filter = {} \/ r.rating \in widgets.rating_filter

MovieGenreRows == SelectRowids(db.movie_genres, widgets.genre_filter)

TvGenreRows == SelectRowids(db.tvshow_genres, widgets.genre_filter)

\* C1: with a non-empty genre selection, a fact table that content_type does
\* not exclude is filtered to exactly the normalized rows that are in the year
\* range, have a selected rating (or none is selected) and whose position in
\* the source table is linked to a selected genre.
C1_GenreFilterKeepsLinkedRows ==
    (status = "ok" /\ widgets.genre_filter # {}) =>
        /\ widgets.content_type # "TV Shows" =>
            Strip(movies_f) =
                Strip(SelectSeq(movies, LAMBDA r :
                    InYearRange(r) /\ RatingSelected(r) /\ r.row \in MovieGenreRows))
        /\ widgets.content_type # "Movies" =>
            Strip(tvshows_f) =
                Strip(SelectSeq(tvshows, LAMBDA r :
                    InYearRange(r) /\ RatingSelected(r) /\ r.row \in TvGenreRows))

\* C2: with no genre selected, a fact table that content_type does not
\* exclude is filtered to exactly the normalized rows with
\* low <= release_year <= high and, when ratings are selected, a selected
\* rating.
C2_YearAndRatingFilter ==
    (status = "ok" /\ widgets.genre_filter = {}) =>
        /\ widgets.content_type # "TV Shows" =>
            Strip(movies_f) =
                Strip(SelectSeq(movies, LAMBDA r : InYearRange(r) /\ RatingSelected(r)))
        /\ widgets.content_type # "Movies" =>
            Strip(tvshows_f) =
                Strip(SelectSeq(tvshows, LAMBDA r : InYearRange(r) /\ RatingSelected(r)))

\* C2 happens: a run with the range 2015..2018 and a rating selection keeps
\* a row at an end of the range, drops a row for its year alone and drops
\* another for its rating alone.
C2_Witness ==
    LET all == movies \o tvshows
        kept == movies_f \o tvshows_f
    IN  /\ status = "ok"
        /\ widgets.genre_filter = {}
        /\ widgets.content_type = "Both"
        /\ widgets.year_range = <<2015, 2018>>
        /\ widgets.rating_filter # {}
        /\ \E i \in DOMAIN kept : kept[i].release_year \in {2015, 2018}
        /\ \E i \in DOMAIN all : ~InYearRange(all[i]) /\ RatingSelected(all[i])
        /\ \E i \in DOMAIN all : InYearRange(all[i]) /\ ~RatingSelected(all[i])

\* C3 as stated: when the genre lookup of a table yields no identifier, its
\* filtered table is empty and differs from the table before the genre step.
C3_EmptyAndNeverEqual ==
    (status = "ok" /\ widgets.genre_filter # {}) =>
        /\ movie_ids = {} => (movies_f = <<>> /\ movies_f # movies_r)
        /\ tv_ids = {} => (tvshows_f = <<>> /\ tvshows_f # tvshows_r)

\* C3 amended: when the genre lookup of a table yields no identifier, its
\* filtered table is empty; it differs from the table before the genre step
\* whenever that table has rows.
C3_EmptyLookupEmptiesTable ==
    (status = "ok" /\ widgets.genre_filter # {}) =>
        /\ movie_ids = {} =>
            (movies_f = <<>> /\ (movies_r # <<>> => movies_f # movies_r))
        /\ tv_ids = {} =>
            (tvshows_f = <<>> /\ (tvshows_r # <<>> => tvshows_f # tvshows_r))

\* C3 happens: a genre is selected, the movie lookup is empty and the movie
\* table had rows before the genre step.
C3_Witness ==
    /\ status = "ok"
    /\ widgets.genre_filter # {}
    /\ movie_ids = {}
    /\ movies_r # <<>>
    /\ movies_f = <<>>

\* C4: with content_type Movies the final tvshows table has no rows, with
\* content_type TV Shows the final movies table has none, and the aggregations
\* of the run are computed on the empty table.
C4_ExcludedTableIsEmpty ==
    status = "ok" =>
        /\ widgets.content_type = "Movies" =>
            /\ tvshows_f = <<>>
            /\ kpi[2] = 0
            /\ pie_df[2] = 0
            /\ \A i \in DOMAIN trend_df : trend_df[i].TVShows = 0
        /\ widgets.content_type = "TV Shows" =>
            /\ movies_f = <<>>
            /\ kpi[1] = 0
            /\ pie_df[1] = 0
            /\ \A i \in DOMAIN trend_df : trend_df[i].Movies = 0

\* C4 happens: TV shows are excluded in a run whose genre step ran with a
\* non-empty tv lookup, over a tvshows table with a row in the year range at
\* a looked-up index.
C4_Witness ==
    /\ status = "ok"
    /\ widgets.content_type = "Movies"
    /\ widgets.genre_filter # {}
    /\ widgets.rating_filter = {}
    /\ tv_ids # {}
    /\ \E i \in DOMAIN tvshows : InYearRange(tvshows[i]) /\ (i - 1) \in tv_ids
    /\ movies_f # <<>>

OnlyDigits(str) == Len(str) > 0 /\ \A i \in DOMAIN str : str[i] \in DecimalChars

DigitRows(df) == SelectSeq(df, LAMBDA r : OnlyDigits(r.release_year))

WithinYearBounds(df) ==
    \A i \in DOMAIN df :
        /\ min_year # NaN
        /\ max_year # NaN
        /\ df[i].release_year \in Int
        /\ min_year <= df[i].release_year
        /\ df[i].release_year <= max_year

\* C5: the cleaning step never raises; it keeps exactly the loaded rows whose
\* release_year string consists solely of digits, with the year as an
\* integer, and every kept year lies in [min_year, max_year].
C5_CleaningKeepsDigitYears ==
    status # "init" =>
        /\ status # "ValueError"
        /\ Len(movies) = Len(DigitRows(cache["load_movies"]))
        /\ Len(tvshows) = Len(DigitRows(cache["load_tvshows"]))
        /\ \A i \in DOMAIN movies :
            /\ movies[i].row = DigitRows(cache["load_movies"])[i].row
            /\ movies[i].release_year =
                    IntOf(DigitRows(cache["load_movies"])[i].release_year)
        /\ \A i \in DOMAIN tvshows :
            /\ tvshows[i].row = DigitRows(cache["load_tvshows"])[i].row
            /\ tvshows[i].release_year =
                    IntOf(DigitRows(cache["load_tvshows"])[i].release_year)
        /\ WithinYearBounds(movies)
        /\ WithinYearBounds(tvshows)

RowsOfYear(df, y) == Cardinality({i \in DOMAIN df : df[i].release_year = y})

\* C6: the trend table has exactly one row per release_year of the filtered
\* movies or the filtered TV shows; Movies and TV Shows are the numbers of
\* filtered rows of that year, 0 where a side has none.
C6_TrendIsOuterJoin ==
    status = "ok" =>
        LET ys == Years(movies_f) \cup Years(tvshows_f)
        IN  /\ {trend_df[i].release_year : i \in DOMAIN trend_df} = ys
            /\ Len(trend_df) = Cardinality(ys)
            /\ \A i \in DOMAIN trend_df :
                /\ trend_df[i].Movies = RowsOfYear(movies_f, trend_df[i].release_year)
                /\ trend_df[i].TVShows = RowsOfYear(tvshows_f, trend_df[i].release_year)

\* C6 happens: one year has movies only, another TV shows only.
C6_Witness ==
    /\ status = "ok"
    /\ \E i \in DOMAIN trend_df : trend_df[i].Movies = 0 /\ trend_df[i].TVShows > 0
    /\ \E i \in DOMAIN trend_df : trend_df[i].Movies > 1 /\ trend_df[i].TVShows = 0

\* C7: each of the six loader queries runs on the store once, in the first
\* run; every later run gets the cached table and sends no loader query.
C7_LoadersQueryStoreOnce ==
    [][\A q \in LoaderNames :
            /\ queries'[q] = 1
            /\ runs > 0 => (cache'[q] = cache[q] /\ queries'[q] = queries[q])]_vars

\* C7 happens: after three runs the genre lookups have been sent twice and
\* every loader query once.
C7_Witness ==
    /\ runs >= 3
    /\ status = "ok"
    /\ queries["movie_ids"] >= 2
    /\ \A q \in LoaderNames : queries[q] = 1

\* C8: the four tables handed to the genre and country charts are the same
\* in every run, whatever the widgets hold.
C8_ChartsIndependentOfFilters ==
    [][(status = "ok" /\ status' = "ok") => figs' = figs]_vars

\* C8 happens: a run with a genre and a country selected draws charts of two
\* genres and two countries.
C8_Witness ==
    /\ status = "ok"
    /\ widgets.genre_filter # {}
    /\ widgets.country_filter # {}
    /\ Len(figs.movie_genre) >= 2
    /\ Len(figs.movie_country) >= 2

\* The label column of the association table behind each aggregate loader
AggregateSource ==
    [load_movie_genres |-> Column(db.movie_genres, "genre"),
     load_tv_genres |-> Column(db.tvshow_genres, "genre"),
     load_movie_countries |-> Column(db.movie_countries, "country"),
     load_tv_countries |-> Column(db.tvshows_countries, "country")]

FirstRetrieved(labels, l) == SetMin({i \in DOMAIN labels : labels[i] = l})

OneRowPerLabelDescending(agg, labels) ==
    /\ {agg[i].label : i \in DOMAIN agg} = Range(labels)
    /\ Len(agg) = Cardinality(Range(labels))
    /\ \A i \in DOMAIN agg :
        agg[i].total = Cardinality({k \in DOMAIN labels : labels[k] = agg[i].label})
    /\ \A i, j \in DOMAIN agg : i < j => agg[i].total >= agg[j].total

\* C9 as stated: each aggregate has one row per label with its count, in
\* descending order of count, labels of equal count in the order in which
\* they first occur in the association table.
C9_DescendingWithStableTies ==
    \A n \in DOMAIN AggregateSource :
        n \in DOMAIN cache =>
            /\ OneRowPerLabelDescending(cache[n], AggregateSource[n])
            /\ \A i, j \in DOMAIN cache[n] :
                (i < j /\ cache[n][i].total = cache[n][j].total) =>
                    FirstRetrieved(AggregateSource[n], cache[n][i].label)
                        < FirstRetrieved(AggregateSource[n], cache[n][j].label)

\* C9 amended: each aggregate has one row per label with its count, in
\* descending order of count; the order of labels of equal count is whatever
\* the store returned.
C9_OneRowPerLabelDescending ==
    \A n \in DOMAIN AggregateSource :
        n \in DOMAIN cache =>
            OneRowPerLabelDescending(cache[n], AggregateSource[n])

\* C9 happens: an aggregate whose more frequent label occurs later in the
\* association table than its less frequent one.
C9_Witness ==
    \E n \in DOMAIN AggregateSource :
        /\ n \in DOMAIN cache
        /\ Len(cache[n]) = 2
        /\ cache[n][1].total > cache[n][2].total
        /\ FirstRetrieved(AggregateSource[n], cache[n][1].label)
            > FirstRetrieved(AggregateSource[n], cache[n][2].label)

\* C10: the three KPI values are the number of filtered movies, the number
\* of filtered TV shows and the sum of the two; the pie gets the same counts.
C10_KpiCounts ==
    status = "ok" =>
        /\ kpi[1] = Len(movies_f)
        /\ kpi[2] = Len(tvshows_f)
        /\ kpi[3] = kpi[1] + kpi[2]
        /\ pie_df = <<Len(movies_f), Len(tvshows_f)>>

\* C10 happens: a run with different, non-zero numbers of movies and shows.
C10_Witness ==
    /\ status = "ok"
    /\ kpi[1] > 0
    /\ kpi[2] > 0
    /\ kpi[1] # kpi[2]

====
